---- MODULE Spec2Model ----
(***************************************************************************)
(* A model of src/main.py: the /search handler of the getmusic proxy.      *)
(*                                                                         *)
(* One request is followed from request.args.get('q') to the value the     *)
(* handler returns (or the exception it lets escape).  Python strings are  *)
(* sequences of one-character strings, JSON values are tagged records, and *)
(* the two upstream calls are split in a send and a receive step so that   *)
(* their order is visible.                                                 *)
(***************************************************************************)
EXTENDS Integers, Sequences, FiniteSets, TLC

VARIABLES pc, request, query, formatted_query, search_url, search_response,
          track_id, stream_url, stream_response, result, calls

vars == <<pc, request, query, formatted_query, search_url, search_response,
          track_id, stream_url, stream_response, result, calls>>

(***************************************************************************)
(* Bounds of the model.                                                    *)
(***************************************************************************)
\* longest raw query, in fragments, of the pipeline specification
MaxPieces == 2
\* longest raw query, in fragments, of the normalisation specification
MaxNormPieces == 4
\* longest "tracks" list the catalog returns
MaxTracks == 2

(***************************************************************************)
(* Python strings.                                                         *)
(***************************************************************************)
SpaceChars == {" ", "\t", "\n", "\r", "\f"}

WordChars ==
  {"a","b","c","d","e","f","g","h","i","j","k","l","m",
   "n","o","p","q","r","s","t","u","v","w","x","y","z",
   "A","B","C","D","E","F","G","H","I","J","K","L","M",
   "N","O","P","Q","R","S","T","U","V","W","X","Y","Z",
   "0","1","2","3","4","5","6","7","8","9","_"}

\* str.isspace of one character, as str.strip() and the regex class \s use it
IsSpace(c) == c \in SpaceChars

\* the regex class \w of one character
IsWord(c) == c \in WordChars

\* re.IGNORECASE folding of the letters the pattern names
Lower(c) ==
  CASE c = "F" -> "f"
    [] c = "E" -> "e"
    [] c = "A" -> "a"
    [] c = "T" -> "t"
    [] OTHER -> c

LowerStr(s) == [i \in 1..Len(s) |-> Lower(s[i])]

\* s[from:] of Python, from counted from 0
Drop(s, n) == SubSeq(s, n + 1, Len(s))

\* s[:n] of Python
Take(s, n) == SubSeq(s, 1, n)

\* str.startswith
StartsWith(s, p) == Len(s) >= Len(p) /\ Take(s, Len(p)) = p

\* old occurs in s at index i
OccursAt(s, old, i) ==
  i + Len(old) - 1 <= Len(s) /\ SubSeq(s, i, i + Len(old) - 1) = old

\* str.find(old) counted from 1: the leftmost occurrence, 0 without one
Find(s, old) ==
  IF \E i \in 1..Len(s) : OccursAt(s, old, i)
  THEN CHOOSE i \in 1..Len(s) :
         OccursAt(s, old, i) /\ \A h \in 1..(i - 1) : ~OccursAt(s, old, h)
  ELSE 0

\* str.replace(old, new): leftmost, non-overlapping, every occurrence; the
\* scan goes on behind each occurrence it replaced
RECURSIVE Replace(_, _, _)
Replace(s, old, new) ==
  LET i == Find(s, old)
  IN  IF i = 0 THEN s
      ELSE Take(s, i - 1) \o new \o Replace(Drop(s, i - 1 + Len(old)), old, new)

RECURSIVE LStrip(_)
LStrip(s) == IF s # <<>> /\ IsSpace(Head(s)) THEN LStrip(Tail(s)) ELSE s

RECURSIVE RStrip(_)
RStrip(s) ==
  IF s # <<>> /\ IsSpace(s[Len(s)]) THEN RStrip(Take(s, Len(s) - 1)) ELSE s

\* str.strip()
Strip(s) == RStrip(LStrip(s))

(***************************************************************************)
(* The pattern  \s+\(?(feat|ft)\b  with re.IGNORECASE.                     *)
(***************************************************************************)
\* index of the first character at or after i that is not whitespace
RECURSIVE SkipSpaces(_, _)
SkipSpaces(s, i) ==
  IF i <= Len(s) /\ IsSpace(s[i]) THEN SkipSpaces(s, i + 1) ELSE i

\* the literal tok, letters folded, at index k, followed by \b
TokenAt(s, k, tok) ==
  /\ k + Len(tok) - 1 <= Len(s)
  /\ LowerStr(SubSeq(s, k, k + Len(tok) - 1)) = tok
  /\ \/ k + Len(tok) > Len(s)
     \/ ~IsWord(s[k + Len(tok)])

FeatTokens == {<<"f","e","a","t">>, <<"f","t">>}

\* a variant of the pattern that folds no case
MatchAtCaseSensitive(s, i) ==
  /\ i <= Len(s)
  /\ IsSpace(s[i])
  /\ LET j == SkipSpaces(s, i)
         k == IF j <= Len(s) /\ s[j] = "(" THEN j + 1 ELSE j
     IN  \E tok \in FeatTokens :
           /\ k + Len(tok) - 1 <= Len(s)
           /\ SubSeq(s, k, k + Len(tok) - 1) = tok
           /\ \/ k + Len(tok) > Len(s)
              \/ ~IsWord(s[k + Len(tok)])

\* the pattern matches starting at index i: \s+ is greedy, and giving back
\* whitespace never helps, for what follows \s+ is never whitespace
MatchAt(s, i) ==
  /\ i <= Len(s)
  /\ IsSpace(s[i])
  /\ LET j == SkipSpaces(s, i)
         k == IF j <= Len(s) /\ s[j] = "(" THEN j + 1 ELSE j
     IN  \E tok \in FeatTokens : TokenAt(s, k, tok)

\* start of the leftmost match, 0 when there is none
FirstMatch(s) ==
  IF \E i \in 1..Len(s) : MatchAt(s, i)
  THEN CHOOSE i \in 1..Len(s) :
         MatchAt(s, i) /\ \A h \in 1..(i - 1) : ~MatchAt(s, h)
  ELSE 0

\* re.split(pattern, s)[0]: the part before the leftmost match, s without one
SplitHead(s) == IF FirstMatch(s) = 0 THEN s ELSE Take(s, FirstMatch(s) - 1)

(***************************************************************************)
(* Query normalisation, main.py lines 39 to 49.                            *)
(***************************************************************************)
lastfm_prefix ==
  <<"h","t","t","p","s",":","/","/","w","w","w",".","l","a","s","t",".",
    "f","m","/","m","u","s","i","c","/">>

\* line 39
FormatQuery(q) ==
  Strip(Replace(Replace(q, <<"+">>, <<" ">>), <<"%","2","6">>, <<"&">>))

\* lines 43 and 44
RemovePrefix(s) ==
  IF StartsWith(s, lastfm_prefix) THEN Drop(s, Len(lastfm_prefix)) ELSE s

\* line 48
RemoveFeaturing(s) == Strip(SplitHead(s))

(***************************************************************************)
(* JSON values, as response.json() decodes them.                           *)
(***************************************************************************)
JNull == [t |-> "null"]
JNum(n) == [t |-> "num", v |-> n]
JStr(s) == [t |-> "str", v |-> s]
JList(items) == [t |-> "list", v |-> items]
JObj(fields) == [t |-> "obj", v |-> fields]

\* the return of an expression that ended normally, and of one that raised
Value(v) == [raised |-> FALSE, val |-> v]
Raised(e) == [raised |-> TRUE, exc |-> e]

\* Python truth value: what `not x` negates
Truthy(x) ==
  CASE x.t = "null" -> FALSE
    [] x.t = "num" -> x.v # 0
    [] x.t = "str" -> x.v # ""
    [] x.t = "list" -> x.v # <<>>
    [] x.t = "obj" -> DOMAIN x.v # {}

\* x.get(key): dict.get on a mapping, AttributeError on anything else
GetMethod(x, key) ==
  IF x.t = "obj"
  THEN IF key \in DOMAIN x.v THEN Value(x.v[key]) ELSE Value(JNull)
  ELSE Raised("AttributeError")

\* x[0]
FirstItem(x) ==
  CASE x.t = "list" -> IF x.v # <<>> THEN Value(x.v[1]) ELSE Raised("IndexError")
    [] x.t = "obj" -> Raised("KeyError")
    [] OTHER -> Raised("TypeError")

\* x[len(x) - 1]: what a selection of the last element would read
LastItem(x) ==
  CASE x.t = "list" ->
         IF x.v # <<>> THEN Value(x.v[Len(x.v)]) ELSE Raised("IndexError")
    [] x.t = "obj" -> Raised("KeyError")
    [] OTHER -> Raised("TypeError")

\* line 69: search_data['tracks'][0]
SelectTrack(tracks) == FirstItem(tracks)

\* x[key] for a string key
Item(x, key) ==
  CASE x.t = "obj" ->
         IF key \in DOMAIN x.v THEN Value(x.v[key]) ELSE Raised("KeyError")
    [] OTHER -> Raised("TypeError")

\* response.json(): the decoded body, JSONDecodeError on a malformed one
Json(response) ==
  IF response.body.ok THEN Value(response.body.json)
  ELSE Raised("JSONDecodeError")

\* a status that lets every response through
RaisesForNoStatus(status) == FALSE

\* a status check that raises on server errors only
RaisesForServerErrors(status) == status >= 500

\* response.raise_for_status() raises HTTPError: on 4xx and 5xx only
RaisesForStatus(status) == status >= 400 /\ status < 600

\* `not search_data.get('tracks')` with a test for the key alone
AbsentOnly(x) == x.t = "null"

\* line 65: `not search_data.get('tracks')`, on the value .get returned
NoTracks(x) == ~Truthy(x)

\* line 88: `not final_stream_url`
NoStreamUrl(x) == ~Truthy(x)

(***************************************************************************)
(* The requests and the upstream behaviours the model draws from.          *)
(***************************************************************************)
RECURSIVE Flatten(_)
Flatten(pieces) ==
  IF pieces = <<>> THEN <<>> ELSE Head(pieces) \o Flatten(Tail(pieces))

SeqsUpTo(S, n) == UNION {[1..k -> S] : k \in 0..n}

Fragments ==
  {<<"+">>, <<" ">>, <<"%","2","6">>, <<"A">>,
   <<"f","e","a","t">>, <<"F","t">>, lastfm_prefix}

NormFragments ==
  {<<"+">>, <<" ">>, <<"A">>, <<"(">>, <<".">>,
   <<"f","e","a","t">>, <<"F","t">>, lastfm_prefix}

RawQueries == {Flatten(p) : p \in SeqsUpTo(Fragments, MaxPieces)}

NormQueries == {Flatten(p) : p \in SeqsUpTo(NormFragments, MaxNormPieces)}

Absent == [present |-> FALSE]
Arg(v) == [present |-> TRUE, val |-> v]

AllowedQualities == {5, 6, 7, 27}

QualityArgs == {Absent, Arg(27), Arg(99)}

Requests ==
  {[q |-> qa, quality |-> ql] :
     qa \in {Absent} \cup {Arg(s) : s \in RawQueries}, ql \in QualityArgs}

NormRequests == {[q |-> Arg(s), quality |-> Absent] : s \in NormQueries}

TrackIds == {11, 22}

TrackValues == {JObj([id |-> JNum(i)]) : i \in TrackIds} \cup {JObj(<<>>), JNull}

TracksValues ==
  {JList(s) : s \in SeqsUpTo(TrackValues, MaxTracks)} \cup {JNull, JNum(7)}

Malformed == [ok |-> FALSE]
Decoded(j) == [ok |-> TRUE, json |-> j]

SearchBodies ==
  {Malformed, Decoded(JList(<<>>)), Decoded(JObj(<<>>))}
    \cup {Decoded(JObj([tracks |-> tv])) : tv \in TracksValues}

GoodSearchBody == Decoded(JObj([tracks |-> JList(<<JObj([id |-> JNum(11)])>>)]))

Urls == {"http://cdn/x.flac", "http://cdn/y.flac"}

StreamBodies ==
  {Malformed, Decoded(JList(<<>>)), Decoded(JObj(<<>>)),
   Decoded(JObj([data |-> JObj(<<>>)])),
   Decoded(JObj([url |-> JNull])), Decoded(JObj([url |-> JStr("")]))}
    \cup {Decoded(JObj([url |-> JStr(u)])) : u \in Urls}

GoodStreamBody == Decoded(JObj([url |-> JStr("http://cdn/x.flac")]))

NetworkError == [kind |-> "error"]
Http(s, b) == [kind |-> "http", status |-> s, body |-> b]
NoResponse == [kind |-> "none"]

OtherStatuses == {304, 404, 503}

SearchOutcomes ==
  {NetworkError} \cup {Http(200, b) : b \in SearchBodies}
    \cup {Http(s, b) : s \in OtherStatuses, b \in {Malformed, GoodSearchBody}}

StreamOutcomes ==
  {NetworkError} \cup {Http(200, b) : b \in StreamBodies}
    \cup {Http(s, b) : s \in OtherStatuses, b \in {Malformed, GoodStreamBody}}

(***************************************************************************)
(* The handler, main.py lines 30 to 93.                                    *)
(***************************************************************************)
NoUrl == [endpoint |-> "none"]

\* the quality a request asks for, 27 when it names none
RequestedQuality == IF request.quality.present THEN request.quality.val ELSE 27

\* line 73: the quality parameter of the stream URL
StreamQuality == 27

\* line 51
SearchUrl(term) ==
  [endpoint |-> "https://dab.yeet.su/api/search", q |-> term,
   offset |-> 0, type |-> "track"]

\* line 73
StreamUrl(id) ==
  [endpoint |-> "https://dab.yeet.su/api/stream", trackId |-> id,
   quality |-> StreamQuality]

\* return jsonify(body), status
Respond(status, body) ==
  /\ result' = [kind |-> "response", status |-> status, body |-> body]
  /\ pc' = "done"

\* an exception no except clause of the handler catches
Escape(e) ==
  /\ result' = [kind |-> "exception", exc |-> e]
  /\ pc' = "done"

TypeInit ==
  /\ pc = "start"
  /\ query = Absent
  /\ formatted_query = <<>>
  /\ search_url = NoUrl
  /\ search_response = NoResponse
  /\ track_id = JNull
  /\ stream_url = NoUrl
  /\ stream_response = NoResponse
  /\ result = [kind |-> "none"]
  /\ calls = <<>>

Init == request \in Requests /\ TypeInit

NormInit == request \in NormRequests /\ TypeInit

\* lines 32 to 37
Receive ==
  /\ pc = "start"
  /\ query' = request.q
  /\ IF ~request.q.present \/ request.q.val = <<>>
     THEN Respond(400, [error |-> "Missing query parameter q"])
     ELSE pc' = "format" /\ UNCHANGED result
  /\ UNCHANGED <<request, formatted_query, search_url, search_response,
                 track_id, stream_url, stream_response, calls>>

\* line 39
Format ==
  /\ pc = "format"
  /\ formatted_query' = FormatQuery(query.val)
  /\ pc' = "prefix"
  /\ UNCHANGED <<request, query, search_url, search_response, track_id,
                 stream_url, stream_response, result, calls>>

\* lines 42 to 45
StripPrefix ==
  /\ pc = "prefix"
  /\ formatted_query' = RemovePrefix(formatted_query)
  /\ pc' = "feat"
  /\ UNCHANGED <<request, query, search_url, search_response, track_id,
                 stream_url, stream_response, result, calls>>

\* line 48
StripFeaturing ==
  /\ pc = "feat"
  /\ formatted_query' = RemoveFeaturing(formatted_query)
  /\ pc' = "url"
  /\ UNCHANGED <<request, query, search_url, search_response, track_id,
                 stream_url, stream_response, result, calls>>

\* line 51
BuildSearchUrl ==
  /\ pc = "url"
  /\ search_url' = SearchUrl(formatted_query)
  /\ pc' = "search_send"
  /\ UNCHANGED <<request, query, formatted_query, search_response, track_id,
                 stream_url, stream_response, result, calls>>

\* line 55: scraper.get(search_url) goes out
SearchSend ==
  /\ pc = "search_send"
  /\ calls' = Append(calls, "search.send")
  /\ pc' = "search_recv"
  /\ UNCHANGED <<request, query, formatted_query, search_url, search_response,
                 track_id, stream_url, stream_response, result>>

\* lines 55 to 62: scraper.get returns or raises, then raise_for_status
SearchRecv ==
  /\ pc = "search_recv"
  /\ \E o \in SearchOutcomes :
       /\ search_response' = o
       /\ IF o.kind = "error" \/ RaisesForStatus(o.status)
          THEN Respond(500, [error |-> "Failed to fetch track data"])
          ELSE pc' = "search_json" /\ UNCHANGED result
  /\ calls' = Append(calls, "search.recv")
  /\ UNCHANGED <<request, query, formatted_query, search_url, track_id,
                 stream_url, stream_response>>

\* lines 64 to 67
SearchJson ==
  /\ pc = "search_json"
  /\ LET search_data == Json(search_response)
         tracks == GetMethod(search_data.val, "tracks")
     IN  IF search_data.raised THEN Escape(search_data.exc)
         ELSE IF tracks.raised THEN Escape(tracks.exc)
         ELSE IF NoTracks(tracks.val)
              THEN Respond(404, [error |-> "No tracks found"])
              ELSE pc' = "select" /\ UNCHANGED result
  /\ UNCHANGED <<request, query, formatted_query, search_url, search_response,
                 track_id, stream_url, stream_response, calls>>

\* lines 69 to 73
Select ==
  /\ pc = "select"
  /\ LET tracks == search_response.body.json.v["tracks"]
         track == SelectTrack(tracks)
         id == Item(track.val, "id")
     IN  IF track.raised
         THEN Escape(track.exc) /\ UNCHANGED <<track_id, stream_url>>
         ELSE IF id.raised
         THEN Escape(id.exc) /\ UNCHANGED <<track_id, stream_url>>
         ELSE /\ track_id' = id.val
              /\ stream_url' = StreamUrl(id.val)
              /\ pc' = "stream_send"
              /\ UNCHANGED result
  /\ UNCHANGED <<request, query, formatted_query, search_url, search_response,
                 stream_response, calls>>

\* line 77: scraper.get(stream_url) goes out
StreamSend ==
  /\ pc = "stream_send"
  /\ calls' = Append(calls, "stream.send")
  /\ pc' = "stream_recv"
  /\ UNCHANGED <<request, query, formatted_query, search_url, search_response,
                 track_id, stream_url, stream_response, result>>

\* lines 77 to 84
StreamRecv ==
  /\ pc = "stream_recv"
  /\ \E o \in StreamOutcomes :
       /\ stream_response' = o
       /\ IF o.kind = "error" \/ RaisesForStatus(o.status)
          THEN Respond(500, [error |-> "Failed to fetch stream data"])
          ELSE pc' = "stream_json" /\ UNCHANGED result
  /\ calls' = Append(calls, "stream.recv")
  /\ UNCHANGED <<request, query, formatted_query, search_url, search_response,
                 track_id, stream_url>>

\* lines 86 to 93
StreamJson ==
  /\ pc = "stream_json"
  /\ LET stream_data == Json(stream_response)
         final_stream_url == GetMethod(stream_data.val, "url")
     IN  IF stream_data.raised THEN Escape(stream_data.exc)
         ELSE IF final_stream_url.raised THEN Escape(final_stream_url.exc)
         ELSE IF NoStreamUrl(final_stream_url.val)
              THEN Respond(404, [error |-> "No stream URL found"])
              ELSE Respond(200, [stream_url |-> final_stream_url.val])
  /\ UNCHANGED <<request, query, formatted_query, search_url, search_response,
                 track_id, stream_url, stream_response, calls>>

Normalize == Receive \/ Format \/ StripPrefix \/ StripFeaturing \/ BuildSearchUrl

Next ==
  \/ Receive
  \/ Format
  \/ StripPrefix
  \/ StripFeaturing
  \/ BuildSearchUrl
  \/ SearchSend
  \/ SearchRecv
  \/ SearchJson
  \/ Select
  \/ StreamSend
  \/ StreamRecv
  \/ StreamJson

Spec == Init /\ [][Next]_vars

\* the normalisation alone, on longer queries
NormSpec == NormInit /\ [][Normalize]_vars

(***************************************************************************)
(* Vocabulary of the properties.                                           *)
(***************************************************************************)
Done == pc = "done"

IsResponse == result.kind = "response"

\* the handler returned {'stream_url': ...}
IsSuccess == IsResponse /\ DOMAIN result.body = {"stream_url"}

\* the handler returned {'error': message} with this status
IsError(status, message) ==
  /\ IsResponse
  /\ result.status = status
  /\ result.body = [error |-> message]

AllCalls == <<"search.send", "search.recv", "stream.send", "stream.recv">>

IsPrefix(s, t) == Len(s) <= Len(t) /\ s = Take(t, Len(s))

Sent(call) == \E i \in 1..Len(calls) : calls[i] = call

\* a call that failed in transport: the get raised, or the status is 4xx/5xx
TransportFailed(response) ==
  \/ response.kind = "error"
  \/ response.kind = "http" /\ response.status \in 400..599

\* a call that came back with a status raise_for_status lets through
TransportOk(response) ==
  response.kind = "http" /\ response.status \notin 400..599

\* the response decoded to a JSON object
DecodedObject(response) ==
  TransportOk(response) /\ response.body.ok /\ response.body.json.t = "obj"

\* the decoded catalog response has no "tracks" list, or an empty one
TracksEmptyOrAbsent ==
  /\ DecodedObject(search_response)
  /\ \/ "tracks" \notin DOMAIN search_response.body.json.v
     \/ search_response.body.json.v["tracks"] = JList(<<>>)

\* the decoded resolver response has no "url" field, or an empty one
UrlEmptyOrAbsent ==
  /\ DecodedObject(stream_response)
  /\ \/ "url" \notin DOMAIN stream_response.body.json.v
     \/ stream_response.body.json.v["url"] \in {JNull, JStr("")}

\* the query has been normalised: line 48 has run
Normalized == pc \notin {"start", "format", "prefix", "feat"} /\ query.present
                /\ query.val # <<>>

(***************************************************************************)
(* C1: every run ends with exactly one result, Success carrying a URL or a *)
(* classified Failure carrying a JSON error message, never an unclassified *)
(* exception and never both a URL and an error.                            *)
(***************************************************************************)
C1_OneClassifiedResult ==
  /\ ~Done => result.kind = "none"
  /\ Done =>
       /\ IsResponse
       /\ \/ DOMAIN result.body = {"stream_url"} /\ result.status = 200
          \/ DOMAIN result.body = {"error"}
               /\ result.status \in {400, 404, 500, 503}

C5_NoTracksIs404 ==
  TracksEmptyOrAbsent =>
    /\ calls = Take(AllCalls, 2)
    /\ stream_url = NoUrl
    /\ Done => IsError(404, "No tracks found")

C5_Witness ==
  /\ DecodedObject(search_response)
  /\ search_response.body.json = JObj([tracks |-> JList(<<>>)])
  /\ Done
  /\ IsError(404, "No tracks found")

(***************************************************************************)
(* C6: a raw query whose normalised term is empty ends the run with        *)
(* Failure(BadRequest), HTTP status 400, and no outbound call is made.     *)
(***************************************************************************)
C6_EmptyTermIsBadRequest ==
  (Normalized /\ formatted_query = <<>>) =>
    /\ calls = <<>>
    /\ Done => IsResponse /\ result.status = 400

(***************************************************************************)
(* C7 as amended: a quality value outside {5,6,7,27} (such as 99) is never *)
(* read: with a valid query the request is not rejected, the catalog is    *)
(* searched, and any resolve call carries the fixed quality 27.            *)
(***************************************************************************)
BadQuality ==
  request.quality.present /\ request.quality.val \notin AllowedQualities

C8_FirstTrackResolved ==
  /\ stream_url # NoUrl =>
       LET tracks == search_response.body.json.v["tracks"]
       IN  /\ tracks.t = "list"
           /\ tracks.v # <<>>
           /\ tracks.v[1].t = "obj"
           /\ "id" \in DOMAIN tracks.v[1].v
           /\ stream_url.trackId = tracks.v[1].v["id"]
  /\ (Done /\ IsSuccess) =>
       /\ calls = AllCalls
       /\ result.body.stream_url = stream_response.body.json.v["url"]

C8_Witness ==
  /\ Done
  /\ IsSuccess
  /\ result.body.stream_url = JStr("http://cdn/y.flac")
  /\ search_response.body.json.v["tracks"] =
       JList(<<JObj([id |-> JNum(22)]), JObj([id |-> JNum(11)])>>)
  /\ stream_url.trackId = JNum(22)

(***************************************************************************)
(* Featuring annotations, stated on the characters of a string.            *)
(***************************************************************************)
UpperOf == [f |-> "F", e |-> "E", a |-> "A", t |-> "T"]

\* any case variant of "feat" or "ft" starts at index k and ends at a word
\* boundary
TokenHere(s, k) ==
  \E tok \in FeatTokens :
    /\ k >= 1
    /\ k + Len(tok) - 1 <= Len(s)
    /\ \A h \in 1..Len(tok) : s[k + h - 1] \in {tok[h], UpperOf[tok[h]]}
    /\ \/ k + Len(tok) - 1 = Len(s)
       \/ s[k + Len(tok)] \notin WordChars

\* an annotation starts at index i: one or more whitespace characters, an
\* optional opening parenthesis, the token
AnnotationAt(s, i) ==
  \E w \in 1..(Len(s) - i + 1) :
    /\ \A h \in i..(i + w - 1) : s[h] \in SpaceChars
    /\ \/ TokenHere(s, i + w)
       \/ i + w <= Len(s) /\ s[i + w] = "(" /\ TokenHere(s, i + w + 1)

\* an annotation whose whitespace is optional too: the token at a word
\* boundary, or behind an opening parenthesis
LooseAnnotationAt(s, i) ==
  \/ AnnotationAt(s, i)
  \/ TokenHere(s, i) /\ (i = 1 \/ s[i - 1] \notin WordChars)
  \/ s[i] = "(" /\ TokenHere(s, i + 1)

\* where the first annotation starts, 0 without one
FirstAnnotation(s) ==
  IF \E i \in 1..Len(s) : AnnotationAt(s, i)
  THEN CHOOSE i \in 1..Len(s) :
         AnnotationAt(s, i) /\ \A h \in 1..(i - 1) : ~AnnotationAt(s, h)
  ELSE 0

FirstLooseAnnotation(s) ==
  IF \E i \in 1..Len(s) : LooseAnnotationAt(s, i)
  THEN CHOOSE i \in 1..Len(s) :
         LooseAnnotationAt(s, i) /\ \A h \in 1..(i - 1) : ~LooseAnnotationAt(s, h)
  ELSE 0

\* the query as line 48 finds it
BeforeFeaturing == RemovePrefix(FormatQuery(query.val))

(***************************************************************************)
(* C9: the term sent to the catalog upstream has no leading or trailing    *)
(* whitespace, no literal '+', no featuring suffix, and does not start     *)
(* with the source-site URL prefix.                                        *)
(***************************************************************************)
TermTrimmed(term) ==
  term = <<>> \/ (term[1] \notin SpaceChars /\ term[Len(term)] \notin SpaceChars)

TermHasNoPlus(term) == \A i \in 1..Len(term) : term[i] # "+"

TermHasNoFeaturing(term) == \A i \in 1..Len(term) : ~AnnotationAt(term, i)

TermHasNoPrefix(term) ==
  ~(/\ Len(term) >= Len(lastfm_prefix)
    /\ \A h \in 1..Len(lastfm_prefix) : term[h] = lastfm_prefix[h])

C9_TermInvariants ==
  Sent("search.send") =>
    /\ TermTrimmed(search_url.q)
    /\ TermHasNoPlus(search_url.q)
    /\ TermHasNoFeaturing(search_url.q)
    /\ TermHasNoPrefix(search_url.q)

(***************************************************************************)
(* C10 as amended: normalisation cuts the query at the first featuring     *)
(* annotation, any case variant of "feat" or "ft" that ends at a word      *)
(* boundary and follows one or more whitespace characters, with an         *)
(* optional opening parenthesis between, and keeps the part before it,     *)
(* trimmed; without such an annotation it keeps the whole string, trimmed. *)
(***************************************************************************)
C10_FeaturingSplit ==
  Normalized =>
    LET s == BeforeFeaturing
        i == FirstAnnotation(s)
    IN  formatted_query = IF i = 0 THEN Strip(s) ELSE Strip(Take(s, i - 1))

C10_Witness ==
  /\ Normalized
  /\ query.val = <<"A", " ", "(", "F", "t">>
  /\ formatted_query = <<"A">>

(***************************************************************************)
(* C10 as claimed: the annotation's whitespace is optional as well as its  *)
(* parenthesis; of a name followed by an annotation the part before the    *)
(* first annotation is kept, trimmed, and a string without an annotation   *)
(* is kept unchanged.                                                      *)
(***************************************************************************)
C10_OptionalWhitespace ==
  Normalized =>
    LET s == BeforeFeaturing
        i == FirstLooseAnnotation(s)
    IN  /\ i = 0 => formatted_query = s
        /\ (i > 1 /\ s[1] \in WordChars) =>
             formatted_query = Strip(Take(s, i - 1))

====
